---- MODULE Spec2Model ----
(***************************************************************************)
(* A model of botc_tokens.  First its page packer, helpers/printable.py     *)
(* (class Printable): tokens are composited onto fixed-size pages in a     *)
(* triangular close packing, pages are appended to a document when they    *)
(* overflow or on write().  Further down, each with a specification of its *)
(* own: the text functions of helpers/text_tools.py, create_role_token,    *)
(* the create command with the component package, and the group command.   *)
(*                                                                         *)
(* Numbers.  The code keeps current_x and current_y as Python floats.      *)
(*   current_x is a multiple of 0.5 (diameter * 0.5 + padding), so the     *)
(*   model keeps it in HALF PIXELS (the value times two).                  *)
(*   current_y is a sum of terms (diameter // 2) * sqrt(3) + padding, so   *)
(*   the model keeps it exactly, as [s, i] for s * sqrt(3) + i; int() and  *)
(*   the comparisons with the page height are computed on that form with   *)
(*   integer square roots (sqrt(3) is irrational, so no comparison of the  *)
(*   code is ever decided by a rounding of the float).                     *)
(***************************************************************************)
EXTENDS Integers, Sequences, FiniteSets, TLC

VARIABLES
    self,          \* the Printable object: its fields
    args,          \* the constructor's arguments and the token files at hand
    token,         \* the token image as add_token leaves it (after the resize)
    pdf,           \* the pages of the file document.save wrote, <<>> when none
    last_op,       \* the last method called
    n_added,       \* number of add_token calls
    n_save_page,   \* number of save_page calls made by the caller
    n_write,       \* number of write calls
    first_token,   \* the first token ever added, <<0, 0>> before
    equal_tokens,  \* every token added so far is diameter x diameter
    n_saved        \* number of document.save calls (files written by write)

\* The other parts of the program, each with a specification of its own
\* further down; a part that is not running is Idle.
VARIABLES
    fit,           \* a call of text_tools.fit_ability_text
    curve,         \* a call of text_tools.curved_text_to_image
    compose,       \* a call of token_creation.create_role_token
    create,        \* a run of the create command
    group,         \* a run of the group command's process_tokens
    wiki           \* a WikiSoup object and the calls made on it

printableVars == <<self, args, token, pdf, last_op, n_added, n_save_page,
                   n_write, first_token, equal_tokens, n_saved>>

vars == <<self, args, token, pdf, last_op, n_added, n_save_page, n_write,
          first_token, equal_tokens, n_saved, fit, curve, compose, create,
          group, wiki>>

Idle == [pc |-> "idle"]

----------------------------------------------------------------------------
\* Bounds of the model.

MaxWidth == 3
MaxHeight == 4
MaxPadding == 1
MaxDiameter == 3
MaxTokens == 4
ScenarioTokens == 10
MaxSavePage == 1
MaxWrite == 1

\* diameter=None, the constructor's default: no diameter established yet.
None == 0

----------------------------------------------------------------------------
\* Arithmetic of the float cursor.

Max(a, b) == IF a > b THEN a ELSE b

\* floor(sqrt(n))
ISqrt(n) == CHOOSE k \in 0..n : k * k <= n /\ (k + 1) * (k + 1) > n

\* current_y = 0
YZero == [s |-> 0, i |-> 0]

\* a * sqrt(3) > b, for integers a, b
SqrtGreater(a, b) ==
    IF a >= 0
    THEN (b < 0) \/ (3 * a * a > b * b)
    ELSE (b < 0) /\ (3 * a * a < b * b)

\* y1 < y2 for two values of current_y
YLess(y1, y2) == SqrtGreater(y2.s - y1.s, y1.i - y2.i)

\* int(self.current_y)
IntY(y) == ISqrt(3 * y.s * y.s) + y.i

\* int(self.current_x), current_x in half pixels
IntX(x) == x \div 2

\* self.current_y + self.diameter > self.page.height
YOverflows(y, diameter, page_height) ==
    SqrtGreater(y.s, page_height - diameter - y.i)

----------------------------------------------------------------------------
\* The methods of Printable, as functions of the object.

\* save_page with the cursor test dropped: every call appends the page.
save_page_always(s) ==
    [s EXCEPT !.document = Append(@, s.page),
              !.current_x = 0,
              !.current_y = YZero,
              !.page_number = @ + 1,
              !.next_row_should_be_inset = FALSE,
              !.page = <<>>]

\* save_page that leaves the row inset flag as the last row wrap set it.
save_page_keeps_inset(s) ==
    IF ~(s.current_x = 0 /\ s.current_y = YZero)
    THEN [s EXCEPT !.document = Append(@, s.page),
                   !.current_x = 0,
                   !.current_y = YZero,
                   !.page_number = @ + 1,
                   !.page = <<>>]
    ELSE [s EXCEPT !.page = <<>>]

save_page(s) ==
    IF ~(s.current_x = 0 /\ s.current_y = YZero)
    THEN [s EXCEPT !.document = Append(@, s.page),
                   !.current_x = 0,
                   !.current_y = YZero,
                   !.page_number = @ + 1,
                   !.next_row_should_be_inset = FALSE,
                   !.page = <<>>]
    ELSE [s EXCEPT !.page = <<>>]

\* write without the flush of the open page.
write_no_flush(s) == s

\* write: the object after the call (the save itself is in Saved).
write(s) ==
    IF s.current_x # 0 \/ s.current_y # YZero
    THEN save_page(s)
    ELSE s

\* write saves everything, even an empty document.
Saves_always(s) == TRUE

\* write's test before document.save: the sequence holds a page.
Saves(s) == write(s).document # <<>>

\* What write's document.save puts on disk: nothing for an empty sequence.
Saved(s) == IF write(s).document # <<>> THEN write(s).document ELSE <<>>

\* The diameter add_token works with: the fixed one, or the token's largest side.
established(s, tok) ==
    IF s.diameter = None
    THEN (IF tok.width > tok.height THEN tok.width ELSE tok.height)
    ELSE s.diameter

\* The token object after add_token's resize (which follows the composite).
resized(s, tok) ==
    LET d == established(s, tok) IN
    IF tok.width > d \/ tok.height > d
    THEN [tok EXCEPT !.width = d, !.height = d]
    ELSE tok

\* add_token with the diameter taken from every token, not only the first.
add_token_any_diameter(s, tok) ==
    LET d == Max(tok.width, tok.height)
        placed == [file |-> tok.file,
                   left |-> IntX(s.current_x), top |-> IntY(s.current_y),
                   width |-> tok.width, height |-> tok.height,
                   x |-> s.current_x, y |-> s.current_y]
        s1 == [s EXCEPT !.diameter = d,
                        !.page = Append(@, placed),
                        !.current_x = @ + 2 * (d + s.padding)]
        s2 == [s1 EXCEPT
                 !.current_x = IF s.next_row_should_be_inset
                               THEN 0 ELSE d + 2 * s.padding,
                 !.next_row_should_be_inset = ~@,
                 !.current_y = [s |-> @.s + (d \div 2), i |-> @.i + s.padding]]
    IN  IF s1.current_x + 2 * d > 2 * s.page_width
        THEN (IF YOverflows(s2.current_y, d, s.page_height)
              THEN save_page(s2) ELSE s2)
        ELSE s1

\* add_token with the bounds check off by one (>= for >).
add_token_wrap_early(s, tok) ==
    LET d == established(s, tok)
        placed == [file |-> tok.file,
                   left |-> IntX(s.current_x), top |-> IntY(s.current_y),
                   width |-> tok.width, height |-> tok.height,
                   x |-> s.current_x, y |-> s.current_y]
        s1 == [s EXCEPT !.diameter = d,
                        !.page = Append(@, placed),
                        !.current_x = @ + 2 * (d + s.padding)]
        s2 == [s1 EXCEPT
                 !.current_x = IF s.next_row_should_be_inset
                               THEN 0 ELSE d + 2 * s.padding,
                 !.next_row_should_be_inset = ~@,
                 !.current_y = [s |-> @.s + (d \div 2), i |-> @.i + s.padding]]
    IN  IF s1.current_x + 2 * d >= 2 * s.page_width
        THEN (IF YOverflows(s2.current_y, d, s.page_height)
              THEN save_page(s2) ELSE s2)
        ELSE s1

\* add_token: the token is composited at its own size at the truncated
\* cursor; then the cursor advances, wraps to the next row when the next
\* token would cross the right edge, and the page is saved when that row
\* would cross the bottom edge.
add_token(s, tok) ==
    LET d == established(s, tok)
        placed == [file |-> tok.file,
                   left |-> IntX(s.current_x), top |-> IntY(s.current_y),
                   width |-> tok.width, height |-> tok.height,
                   x |-> s.current_x, y |-> s.current_y]
        s1 == [s EXCEPT !.diameter = d,
                        !.page = Append(@, placed),
                        !.current_x = @ + 2 * (d + s.padding)]
        s2 == [s1 EXCEPT
                 !.current_x = IF s.next_row_should_be_inset
                               THEN 0 ELSE d + 2 * s.padding,
                 !.next_row_should_be_inset = ~@,
                 !.current_y = [s |-> @.s + (d \div 2), i |-> @.i + s.padding]]
    IN  IF s1.current_x + 2 * d > 2 * s.page_width
        THEN (IF YOverflows(s2.current_y, d, s.page_height)
              THEN save_page(s2) ELSE s2)
        ELSE s1

\* Printable.__init__: the fields, then save_page() for the first page.
Construct(a) ==
    save_page([page_width |-> a.page_width,
               page_height |-> a.page_height,
               page |-> <<>>,
               document |-> <<>>,
               current_x |-> 0,
               current_y |-> YZero,
               next_row_should_be_inset |-> FALSE,
               page_number |-> 1,
               padding |-> a.padding,
               diameter |-> a.diameter])

----------------------------------------------------------------------------
\* The inputs.

\* Small pages, paddings and diameters, with token files of one size or of
\* two sizes.
GridArgs ==
    [page_width : 1..MaxWidth, page_height : 1..MaxHeight,
     padding : 0..MaxPadding, diameter : {None} \cup (1..MaxDiameter),
     token_files : {{<<k, k>>} : k \in 1..MaxDiameter}
                   \cup {{<<1, 2>>, <<MaxDiameter, MaxDiameter>>}}]

\* The pages of tests/commands/test_group.py (256 wide, padding 0) with
\* tokens of the fixed size.
ScenarioArgs ==
    { [page_width |-> 256, page_height |-> c[1], padding |-> 0,
       diameter |-> d, token_files |-> {<<c[2], c[2]>>}] :
         c \in {<<128, 128>>, <<128, 256>>, <<256, 128>>},
         d \in {None} } \cup
    { [page_width |-> 256, page_height |-> c[1], padding |-> 0,
       diameter |-> c[2], token_files |-> {<<c[2], c[2]>>}] :
         c \in {<<128, 128>>, <<128, 256>>, <<256, 128>>} }

Budget == IF args \in ScenarioArgs THEN ScenarioTokens ELSE MaxTokens

----------------------------------------------------------------------------
\* The state machine: a caller constructs a Printable and calls its methods.

Init ==
    /\ args \in GridArgs \cup ScenarioArgs
    /\ self = Construct(args)
    /\ token = [width |-> 0, height |-> 0, file |-> 0]
    /\ pdf = <<>>
    /\ last_op = "init"
    /\ n_added = 0
    /\ n_save_page = 0
    /\ n_write = 0
    /\ first_token = <<0, 0>>
    /\ equal_tokens = TRUE
    /\ n_saved = 0
    /\ fit = Idle /\ curve = Idle /\ compose = Idle
    /\ create = Idle /\ group = Idle
    /\ wiki = Idle

AddToken ==
    /\ n_added < Budget
    /\ \E size \in args.token_files :
         LET tok == [width |-> size[1], height |-> size[2], file |-> n_added + 1]
         IN  /\ self' = add_token(self, tok)
             /\ token' = resized(self, tok)
             /\ first_token' = IF n_added = 0 THEN size ELSE first_token
             /\ equal_tokens' = (equal_tokens /\ size[1] = self'.diameter
                                              /\ size[2] = self'.diameter)
    /\ n_added' = n_added + 1
    /\ last_op' = "add_token"
    /\ UNCHANGED <<args, pdf, n_save_page, n_write, n_saved>>
    /\ UNCHANGED <<fit, curve, compose, create, group, wiki>>

SavePage ==
    /\ n_save_page < MaxSavePage
    /\ self' = save_page(self)
    /\ n_save_page' = n_save_page + 1
    /\ last_op' = "save_page"
    /\ UNCHANGED <<args, token, pdf, n_added, n_write, first_token, equal_tokens,
                   n_saved>>
    /\ UNCHANGED <<fit, curve, compose, create, group, wiki>>

Write ==
    /\ n_write < MaxWrite
    /\ self' = write(self)
    /\ pdf' = IF Saves(self) THEN Saved(self) ELSE pdf
    /\ n_saved' = IF Saves(self) THEN n_saved + 1 ELSE n_saved
    /\ n_write' = n_write + 1
    /\ last_op' = "write"
    /\ UNCHANGED <<args, token, n_added, n_save_page, first_token, equal_tokens>>
    /\ UNCHANGED <<fit, curve, compose, create, group, wiki>>

Next == AddToken \/ SavePage \/ Write

Spec == Init /\ [][Next]_vars

----------------------------------------------------------------------------
\* What the claims speak of.

\* The committed pages followed by the open page.
Pages == Append(self.document, self.page)

\* The cursor-at-origin test of save_page and write.
AtOrigin == self.current_x = 0 /\ self.current_y = YZero

\* The caller added its tokens and then called write once, nothing else.
AddsThenWrite == last_op = "write" /\ n_write = 1 /\ n_save_page = 0

\* ceil(n / c)
CeilDiv(n, c) == (n + c - 1) \div c

\* A page that has just been started.
Fresh(s) ==
    [s EXCEPT !.document = <<>>, !.page = <<>>, !.current_x = 0,
              !.current_y = YZero, !.next_row_should_be_inset = FALSE]

\* The number of tokens of the established diameter a fresh page receives
\* before add_token commits it; 0 when it receives more than limit.
RECURSIVE Fill(_, _, _)
Fill(s, k, limit) ==
    IF k > limit THEN 0
    ELSE LET s1 == add_token(s, [width |-> s.diameter, height |-> s.diameter,
                                 file |-> 0])
         IN  IF s1.document # <<>> THEN k ELSE Fill(s1, k + 1, limit)

Capacity == Fill(Fresh(self), 1, Budget + 1)

\* The test pages: 256 wide, padding 0, tokens of the given diameter.
TestPage(height, diameter) ==
    /\ args.page_width = 256 /\ args.page_height = height /\ args.padding = 0
    /\ args.token_files = {<<diameter, diameter>>}

----------------------------------------------------------------------------
\* C1: every page of the committed document sequence (and of the file that
\* write saved) holds at least one token: no blank page is ever appended.
C1_NoBlankPageCommitted ==
    /\ \A k \in 1..Len(self.document) : Len(self.document[k]) >= 1
    /\ \A k \in 1..Len(pdf) : Len(pdf[k]) >= 1

\* A write that found the open page blank after two pages had been
\* committed, one of them by the caller's save_page.
C1_Witness ==
    /\ last_op = "write" /\ n_save_page = 1
    /\ Len(self.document) = 2 /\ n_added = Len(self.document[1]) + Len(self.document[2])

\* C2: once the diameter is established, the cursor is at the origin
\* exactly when the open page has received no token.
C2_OriginIffBlank ==
    self.diameter > 0 => (AtOrigin <=> self.page = <<>>)

\* C3: no raster is composited onto a page larger than diameter x diameter
\* (a larger token is downscaled before it is placed).
C3_PlacedWithinDiameter ==
    \A k \in 1..Len(Pages) : \A i \in 1..Len(Pages[k]) :
        /\ Pages[k][i].width <= self.diameter
        /\ Pages[k][i].height <= self.diameter

\* C4, as claimed: 9 tokens of diameter 128, padding 0, on a 256 x 256
\* page give exactly 2 committed pages, the first with 8 tokens.
C4_NineTokensTwoPages ==
    (TestPage(256, 128) /\ AddsThenWrite /\ n_added = 9) =>
        /\ Len(self.document) = 2
        /\ Len(self.document[1]) = 8

\* C4, amended: they give exactly 3 committed pages of 3 tokens each (two
\* in the first row, one in the inset second row): tokens 1-3, 4-6, 7-9.
C4_NineTokensThreePages ==
    (TestPage(256, 128) /\ AddsThenWrite /\ n_added = 9) =>
        /\ Len(self.document) = 3
        /\ \A k \in 1..3 :
             /\ Len(self.document[k]) = 3
             /\ \A i \in 1..3 : self.document[k][i].file = 3 * (k - 1) + i
             /\ self.document[k][1].top = self.document[k][2].top
             /\ self.document[k][2].top < self.document[k][3].top

C4_Witness ==
    TestPage(256, 128) /\ AddsThenWrite /\ n_added = 9 /\ pdf = self.document

\* C5: N equal tokens then write() give ceil(N / c) committed pages, c the
\* number of tokens a fresh page takes before add_token commits it; on the
\* 256-wide test pages c = 2 (diameter 128, height 128), c = 1 (diameter
\* 256, height 128) and c = 3 (diameter 128, height 256).
C5_PagesAreCeiling ==
    (self.diameter # None /\ equal_tokens) =>
        /\ (AddsThenWrite /\ Capacity > 0) =>
               Len(self.document) = CeilDiv(n_added, Capacity)
        /\ TestPage(128, 128) => Capacity = 2
        /\ TestPage(128, 256) => Capacity = 1
        /\ TestPage(256, 128) => Capacity = 3
        /\ (AddsThenWrite /\ n_added = 3 /\ TestPage(128, 128)) =>
               Len(self.document) = 2
        /\ (AddsThenWrite /\ n_added = 3 /\ TestPage(128, 256)) =>
               Len(self.document) = 3
        /\ (AddsThenWrite /\ n_added = 10 /\ TestPage(256, 128)) =>
               Len(self.document) = 4

C5_Witness ==
    /\ TestPage(256, 128) /\ AddsThenWrite /\ n_added = 10 /\ equal_tokens
    /\ Len(self.document) = 4 /\ Len(self.document[4]) = 1

\* The tokens whose layout C6-C9 speak of: all of the established diameter.
EqualDiameter == self.diameter > 0 /\ equal_tokens

\* C6: for equal-diameter tokens, the centres of any two tokens composited
\* on the same page are at least one diameter apart (the centres are the
\* composite coordinates shifted by diameter / 2, so their differences are
\* those of the coordinates).  Stated for diameters of 2 pixels and more
\* on pages at least one diameter wide and high.
C6_NoOverlap ==
    (EqualDiameter /\ self.diameter >= 2 /\ self.page_width >= self.diameter
                   /\ self.page_height >= self.diameter) =>
        \A k \in 1..Len(Pages) : \A i, j \in 1..Len(Pages[k]) :
            i < j =>
                LET dx == Pages[k][i].left - Pages[k][j].left
                    dy == Pages[k][i].top - Pages[k][j].top
                IN  dx * dx + dy * dy >= self.diameter * self.diameter

\* C7: for equal-diameter tokens, consecutive placements in a row are at
\* least diameter + padding apart horizontally, and a placement that
\* starts a new row lies (diameter / 2) * sqrt(3) + padding below the row
\* before it.  Rows are told apart by their current_y, so this is stated
\* where the row pitch of the code is not zero (diameter >= 2 or padding >= 1).
C7_RowAndColumnPitch ==
    (EqualDiameter /\ (self.diameter >= 2 \/ self.padding >= 1)) =>
        \A k \in 1..Len(Pages) : \A i \in 1..(Len(Pages[k]) - 1) :
            LET a == Pages[k][i]
                b == Pages[k][i + 1]
            IN  IF b.y = a.y
                THEN /\ b.x - a.x >= 2 * (self.diameter + self.padding)
                     /\ b.left - a.left >= self.diameter + self.padding
                ELSE /\ 2 * (b.y.s - a.y.s) = self.diameter
                     /\ b.y.i - a.y.i = self.padding

\* C8: on a page at least one diameter wide and high, every token is
\* composited within the page: left + diameter <= page_width and
\* top + diameter <= page_height.
C8_WithinPage ==
    (EqualDiameter /\ self.page_width >= self.diameter
                   /\ self.page_height >= self.diameter) =>
        \A k \in 1..Len(Pages) : \A i \in 1..Len(Pages[k]) :
            /\ Pages[k][i].left + self.diameter <= self.page_width
            /\ Pages[k][i].top + self.diameter <= self.page_height

\* C9: a token added earlier lies on the same or an earlier page, and on
\* the same page in an earlier row (a smaller current_y) or in the same row
\* further left (a smaller current_x); pages are appended in the order
\* they were filled.
C9_InsertionOrder ==
    \A k, l \in 1..Len(Pages) : \A i \in 1..Len(Pages[k]) : \A j \in 1..Len(Pages[l]) :
        LET a == Pages[k][i]
            b == Pages[l][j]
        IN  /\ (k < l) => a.file < b.file
            /\ (k = l /\ i < j) =>
                 /\ a.file < b.file
                 /\ \/ YLess(a.y, b.y)
                    \/ (a.y = b.y /\ a.x < b.x)

C11_NoPagesNoFile ==
    /\ n_added = 0 => self.document = <<>>
    /\ self.document = <<>> => (n_saved = 0 /\ pdf = <<>>)
    /\ n_saved > 0 => (self.document # <<>> /\ pdf # <<>>)
    /\ (last_op = "write" /\ self.document # <<>>) =>
           (n_saved > 0 /\ pdf = self.document)

\* write was called on a Printable that never received a token (the
\* caller's save_page before it appended nothing either): no file.
C11_Witness ==
    /\ last_op = "write" /\ n_added = 0 /\ n_save_page = 1
    /\ self.document = <<>> /\ n_saved = 0 /\ pdf = <<>>

-----------------------------------------------------------------------------
\* helpers/text_tools.py.  A text is a sequence of one-character strings.
\* The font metrics come from the drawing library: a line's text_width is
\* modelled as one font size per character and its text_height as one font
\* size, which keeps what the code relies on (a longer line is wider, the
\* empty line has width 0, a smaller font is narrower).

MaxTextLen == 5       \* longest ability text
MaxFontSize == 2      \* largest font_size argument
MaxLineWidth == 4     \* largest first_line_width argument
MaxStep == 1          \* largest step argument
MaxLines == 6         \* lines one greedy pass may collect before it is cut off
MaxShrinks == 5       \* greedy passes after the first before the call is cut off

Package == 1          \* a loaded component package, as opposed to None

RECURSIVE Pow(_, _)
Pow(b, e) == IF e = 0 THEN 1 ELSE b * Pow(b, e - 1)

\* No text counts as empty.
IsEmpty_never(text) == FALSE

\* text == "", the first test of both text functions
IsEmpty(text) == text = <<>>

RECURSIVE TextsOfLen(_)
TextsOfLen(n) ==
    IF n = 0 THEN {<<>>}
    ELSE {Append(s, c) : s \in TextsOfLen(n - 1), c \in {"a", " "}}

Texts == UNION {TextsOfLen(n) : n \in 0..MaxTextLen}

\* Index of the last " " of s, 0 when there is none.
LastSpace(s) ==
    LET at == {i \in 1..Len(s) : s[i] = " "}
    IN  IF at = {} THEN 0 ELSE CHOOSE i \in at : \A j \in at : j <= i

\* " ".join(s.split(" ")[1:]): the text without its first word.
DropLastWord_first(s) ==
    LET at == {i \in 1..Len(s) : s[i] = " "}
    IN  IF at = {} THEN <<>>
        ELSE SubSeq(s, (CHOOSE i \in at : \A j \in at : i <= j) + 1, Len(s))

\* " ".join(line_text.split(" ")[:-1]): the text before its last space.
DropLastWord(s) == IF LastSpace(s) = 0 THEN <<>> ELSE SubSeq(s, 1, LastSpace(s) - 1)

\* s.split(" ")[0]: the text before its first space.
FirstWord(s) ==
    LET at == {i \in 1..Len(s) : s[i] = " "}
    IN  IF at = {} THEN s
        ELSE SubSeq(s, 1, (CHOOSE i \in at : \A j \in at : i <= j) - 1)

\* metrics.text_width > target_width, with draw.font_size = font_size * 0.9^k.
TooWide(s, font_size, k, target_width) ==
    Len(s) * font_size * Pow(9, k) > target_width * Pow(10, k)

\* The inner while: drop last words until the line fits.
RECURSIVE LongestFit(_, _, _, _)
LongestFit(line_text, font_size, k, target_width) ==
    CHOOSE fitted \in
        { IF TooWide(s, font_size, k, target_width)
          THEN LongestFit(DropLastWord(s), font_size, k, target_width)
          ELSE s : s \in {line_text} } : TRUE

\* while len(lines) > 4
TooManyLines(lines) == Len(lines) > 4

\* int(largest_line_width) x int(max_height * 1.2) of the returned block.
BlockSize(lines, font_size, k) ==
    LET longest == IF lines = <<>> THEN 0
                   ELSE CHOOSE n \in {Len(lines[i]) : i \in 1..Len(lines)} :
                            \A i \in 1..Len(lines) : Len(lines[i]) <= n
    IN  << (longest * font_size * Pow(9, k)) \div Pow(10, k),
           (Len(lines) * font_size * Pow(9, k) * 12) \div (Pow(10, k) * 10) >>

FitArgs ==
    [text : Texts, font_size : 1..MaxFontSize,
     first_line_width : 1..MaxLineWidth, step : 0..MaxStep,
     components : {None, Package}]

\* fit_ability_text has been called with arguments a.
FitCalled(a) ==
    [pc |-> "start", args |-> a, text |-> a.text, line_text |-> a.text,
     lines |-> <<>>, target_width |-> a.first_line_width, shrinks |-> 0,
     img |-> <<1, 1>>, touched |-> FALSE, unkept |-> 0]

\* if text == "": return img
FitEmpty ==
    /\ fit.pc = "start" /\ IsEmpty(fit.args.text)
    /\ fit' = [fit EXCEPT !.pc = "return"]
    /\ UNCHANGED <<printableVars, curve, compose, create, group, wiki>>

\* draw.font = str(components.AbilityTextFont); lines = [1, 2, 3, 4, 5]
FitBegin ==
    /\ fit.pc = "start" /\ ~IsEmpty(fit.args.text)
    /\ fit' = IF fit.args.components = None
              THEN [fit EXCEPT !.pc = "raise", !.touched = TRUE]
              ELSE [fit EXCEPT !.pc = "outer", !.touched = TRUE,
                               !.lines = <<1, 2, 3, 4, 5>>, !.shrinks = -1]
    /\ UNCHANGED <<printableVars, curve, compose, create, group, wiki>>

\* One more greedy pass: reset and draw.font_size = draw.font_size * 0.9.
FitPass ==
    /\ fit.pc = "outer" /\ TooManyLines(fit.lines)
    /\ fit.shrinks < MaxShrinks
    /\ fit' = [fit EXCEPT !.pc = "inner", !.text = fit.args.text,
                          !.line_text = fit.args.text, !.lines = <<>>,
                          !.target_width = fit.args.first_line_width,
                          !.shrinks = fit.shrinks + 1]
    /\ UNCHANGED <<printableVars, curve, compose, create, group, wiki>>

\* The next turn of while len(text) > 0 appends the empty line and leaves
\* text and target_width as they are: every later turn does the same.
NoProgress ==
    /\ fit.pc = "inner" /\ Len(fit.text) > 0 /\ fit.args.step = 0
    /\ LongestFit(fit.line_text, fit.args.font_size, fit.shrinks,
                  fit.target_width) = <<>>

\* One turn of while len(text) > 0: the longest line that fits is appended
\* and removed from the front of the text.  Of a loop that makes no
\* progress the first MaxLines lines are kept, all of them empty; of the
\* further turns only the parity of their number is.
FitLine ==
    /\ fit.pc = "inner" /\ Len(fit.text) > 0
    /\ Len(fit.lines) < MaxLines \/ NoProgress
    /\ LET line == LongestFit(fit.line_text, fit.args.font_size, fit.shrinks,
                              fit.target_width)
           rest == SubSeq(fit.text, Len(line) + 1, Len(fit.text))
       IN  fit' = IF Len(fit.lines) < MaxLines
                  THEN [fit EXCEPT !.lines = Append(fit.lines, line),
                                   !.target_width = fit.target_width + fit.args.step,
                                   !.text = rest, !.line_text = rest]
                  ELSE [fit EXCEPT !.unkept = 1 - fit.unkept]
    /\ UNCHANGED <<printableVars, curve, compose, create, group, wiki>>

\* The text is used up: back to the test of the outer loop.
FitPassEnd ==
    /\ fit.pc = "inner" /\ Len(fit.text) = 0
    /\ fit' = [fit EXCEPT !.pc = "outer"]
    /\ UNCHANGED <<printableVars, curve, compose, create, group, wiki>>

\* The block of the first greedy pass is returned whatever its line count.
FitReturn_first_pass ==
    /\ fit.pc = "outer" /\ fit.shrinks >= 0
    /\ fit' = [fit EXCEPT !.pc = "return",
                          !.img = BlockSize(fit.lines, fit.args.font_size,
                                            fit.shrinks)]
    /\ UNCHANGED <<printableVars, curve, compose, create, group, wiki>>

\* The outer loop ends; the block is drawn and returned.
FitReturn ==
    /\ fit.pc = "outer" /\ ~TooManyLines(fit.lines)
    /\ fit' = [fit EXCEPT !.pc = "return",
                          !.img = BlockSize(fit.lines, fit.args.font_size,
                                            fit.shrinks)]
    /\ UNCHANGED <<printableVars, curve, compose, create, group, wiki>>

-----------------------------------------------------------------------------
\* curved_text_to_image.  Here a text is a sequence of glyphs, each given
\* by its advance width in tenths of the font size, so that the drawn
\* width int(metrics.text_width) takes values on both sides of the
\* effective diameter.

MaxAdvance == 160     \* widest text, in tenths of the font size

TokenDiameters == {100, 256}

CurveTexts == {<<>>} \cup {<<a>> : a \in 1..MaxAdvance}

RECURSIVE SeqSum(_)
SeqSum(s) == IF s = <<>> THEN 0 ELSE Head(s) + SeqSum(Tail(s))

\* int(token_diameter - (token_diameter * 0.1))
EffectiveDiameter(token_diameter) == (9 * token_diameter) \div 10

\* font_size in twentieths of the effective diameter: 0.15 or 0.1 of it.
FontTwentieths(token_type) == IF token_type = "reminder" THEN 3 ELSE 2

\* int(metrics.text_width) at draw.font_size = font_size * 0.9^k
TextWidth(text, token_type, d, k) ==
    (SeqSum(text) * d * FontTwentieths(token_type) * Pow(9, k))
        \div (200 * Pow(10, k))

\* int(metrics.text_height) at draw.font_size = font_size * 0.9^k
TextHeight(token_type, d, k) ==
    (d * FontTwentieths(token_type) * Pow(9, k)) \div (20 * Pow(10, k))

\* The loop test with the whole diameter doubled: width > 2 * token_diameter.
WiderThanToken_twice(width, d) == width > 2 * d

\* width > 2 * token_diameter * 0.8
WiderThanToken(width, d) == 10 * width > 16 * d

SineScale == 5000000

\* SineTable[n] is sin((2n - 1) / 4 degrees) * SineScale, rounded up: the
\* chord-to-diameter ratio from which the rounded angle is at least n.
SineTable ==
    <<
       21817, 65448, 109075, 152693, 196300, 239891,
       283464, 327016, 370543, 414042, 457509, 500941,
       544335, 587687, 630995, 674255, 717464, 760617,
       803713, 846748, 889718, 932621, 975452, 1018209,
       1060889, 1103488, 1146002, 1188430, 1230767, 1273010,
       1315157, 1357203, 1399146, 1440982, 1482708, 1524322,
       1565820, 1607198, 1648454, 1689584, 1730586, 1771456,
       1812191, 1852788, 1893244, 1933555, 1973720, 2013734,
       2053595, 2093299, 2132844, 2172227, 2211444, 2250493,
       2289370, 2328073, 2366599, 2404944, 2443107, 2481083,
       2518870, 2556466, 2593867, 2631070, 2668073, 2704873,
       2741467, 2777852, 2814025, 2849984, 2885726, 2921249,
       2956549, 2991624, 3026470, 3061087, 3095470, 3129618,
       3163527, 3197196, 3230620, 3263799, 3296730, 3329409,
       3361835, 3394004, 3425915, 3457566, 3488953, 3520074,
       3550927, 3581510, 3611820, 3641855, 3671613, 3701091,
       3730287, 3759200, 3787825, 3816163, 3844210, 3871964,
       3899423, 3926585, 3953448, 3980011, 4006270, 4032224,
       4057870, 4083208, 4108235, 4132949, 4157349, 4181431,
       4205196, 4228640, 4251762, 4274560, 4297033, 4319178,
       4340995, 4362481, 4383634, 4404454, 4424939, 4445086,
       4464895, 4484364, 4503492, 4522276, 4540716, 4558811,
       4576558, 4593957, 4611005, 4627703, 4644048, 4660040,
       4675677, 4690957, 4705881, 4720446, 4734651, 4748496,
       4761979, 4775100, 4787857, 4800250, 4812277, 4823937,
       4835230, 4846155, 4856711, 4866897, 4876712, 4886156,
       4895228, 4903927, 4912252, 4920204, 4927781, 4934982,
       4941808, 4948257, 4954330, 4960025, 4965343, 4970282,
       4974843, 4979025, 4982828, 4986251, 4989295, 4991959,
       4994242, 4996146, 4997668, 4998811, 4999572, 4999953
    >>

\* round(math.degrees(2 * math.asin((width / 2) / (token_diameter / 2))))
RoundedArc(width, d) ==
    Cardinality({n \in 1..Len(SineTable) : width * SineScale >= SineTable[n] * d})

\* The curve gets no additional half turn.
AdditionalCurve_none(width, d) == 0

\* additional_curve: 180 when the text is wider than the token.
AdditionalCurve(width, d) == IF width > d THEN 180 ELSE 0

\* curve_degree
CurveDegree(width, d) ==
    RoundedArc(IF width > d THEN width - d ELSE width, d) + AdditionalCurve(width, d)

CurveArgs ==
    [text : CurveTexts, token_type : {"reminder", "role"},
     token_diameter : TokenDiameters, components : {None, Package}]

\* curved_text_to_image has been called with arguments a.
CurveCalled(a) ==
    [pc |-> "start", args |-> a, token_diameter |-> a.token_diameter,
     shrinks |-> 0, width |-> 0, height |-> 0, additional_curve |-> 0,
     curve_degree |-> 0, img |-> <<1, 1>>, touched |-> FALSE]

\* if text == "": return img
CurveEmpty ==
    /\ curve.pc = "start" /\ IsEmpty(curve.args.text)
    /\ curve' = [curve EXCEPT !.pc = "return"]
    /\ UNCHANGED <<printableVars, fit, compose, create, group, wiki>>

\* The effective diameter, the font size and the font of the package.
CurveBegin ==
    /\ curve.pc = "start" /\ ~IsEmpty(curve.args.text)
    /\ curve' = [curve EXCEPT
           !.pc = IF curve.args.components = None THEN "raise" ELSE "measure",
           !.touched = TRUE,
           !.token_diameter = EffectiveDiameter(curve.args.token_diameter)]
    /\ UNCHANGED <<printableVars, fit, compose, create, group, wiki>>

\* The text is too wide for the token: draw.font_size * 0.9 and again.
CurveShrink ==
    /\ curve.pc = "measure"
    /\ WiderThanToken(TextWidth(curve.args.text, curve.args.token_type,
                                curve.token_diameter, curve.shrinks),
                      curve.token_diameter)
    /\ curve' = [curve EXCEPT !.shrinks = curve.shrinks + 1]
    /\ UNCHANGED <<printableVars, fit, compose, create, group, wiki>>

\* The text fits: break, and img.resize(width, int(height * 1.2)).
CurveFit ==
    /\ curve.pc = "measure"
    /\ LET width == TextWidth(curve.args.text, curve.args.token_type,
                              curve.token_diameter, curve.shrinks)
           height == TextHeight(curve.args.token_type, curve.token_diameter,
                                curve.shrinks)
       IN  /\ ~WiderThanToken(width, curve.token_diameter)
           /\ curve' = [curve EXCEPT !.pc = "curve", !.width = width,
                                     !.height = height,
                                     !.img = <<width, (height * 12) \div 10>>]
    /\ UNCHANGED <<printableVars, fit, compose, create, group, wiki>>

\* The curve angle from the chord and the diameter; the text is distorted.
CurveArc ==
    /\ curve.pc = "curve"
    /\ curve' = [curve EXCEPT
           !.pc = "return",
           !.additional_curve = AdditionalCurve(curve.width, curve.token_diameter),
           !.curve_degree = CurveDegree(curve.width, curve.token_diameter)]
    /\ UNCHANGED <<printableVars, fit, compose, create, group, wiki>>

\* No sheet is being packed: a Printable as constructed, never used.
PrintableUnused ==
    /\ args = [page_width |-> 1, page_height |-> 1, padding |-> 0,
               diameter |-> None, token_files |-> {<<1, 1>>}]
    /\ self = Construct(args)
    /\ token = [width |-> 0, height |-> 0, file |-> 0]
    /\ pdf = <<>>
    /\ last_op = "init"
    /\ n_added = 0 /\ n_save_page = 0 /\ n_write = 0 /\ n_saved = 0
    /\ first_token = <<0, 0>>
    /\ equal_tokens = TRUE

\* One call of either text function, with any arguments within the bounds.
InitText ==
    /\ \/ fit \in {FitCalled(a) : a \in FitArgs} /\ curve = Idle
       \/ curve \in {CurveCalled(a) : a \in CurveArgs} /\ fit = Idle
    /\ PrintableUnused
    /\ compose = Idle /\ create = Idle /\ group = Idle
    /\ wiki = Idle

NextText ==
    \/ FitEmpty \/ FitBegin \/ FitPass \/ FitLine \/ FitPassEnd \/ FitReturn
    \/ CurveEmpty \/ CurveBegin \/ CurveShrink \/ CurveFit \/ CurveArc

SpecText == InitText /\ [][NextText]_vars

\* The text still to be placed when line i of the block was started.
RestAt(i) ==
    LET RECURSIVE Used(_)
        Used(j) == IF j = 0 THEN 0 ELSE Len(fit.lines[j]) + Used(j - 1)
    IN  SubSeq(fit.args.text, Used(i - 1) + 1, Len(fit.args.text))

\* The target width of line i of the block.
TargetAt(i) == fit.args.first_line_width + (i - 1) * fit.args.step

\* C12: the block fit_ability_text returns has at most 4 lines, whatever
\* the text, the font size, first_line_width and step.
C12_AtMostFourLines ==
    fit.pc = "return" => Len(fit.lines) <= 4

\* A text that needed a smaller font is returned in exactly four lines.
C12_Witness ==
    /\ fit.pc = "return" /\ fit.shrinks >= 1
    /\ Len(fit.lines) = 4

\* C13: in the returned block, a word that starts a line and is wider
\* than that line's target width is that line, whole.
C13_LongWordOnOwnLine ==
    (fit.pc = "return" /\ ~IsEmpty(fit.args.text)) =>
        \A i \in 1..Len(fit.lines) :
            TooWide(FirstWord(RestAt(i)), fit.args.font_size, fit.shrinks,
                    TargetAt(i))
            => fit.lines[i] = FirstWord(RestAt(i))

\* C14: for the empty text both functions return the 1x1 image at once
\* and never read the component package, whatever the other arguments.
C14_EmptyTextOneByOne ==
    /\ (fit.pc # "idle" /\ fit.args.text = <<>>) =>
           /\ fit.pc \in {"start", "return"}
           /\ fit.img = <<1, 1>> /\ ~fit.touched
    /\ (curve.pc # "idle" /\ curve.args.text = <<>>) =>
           /\ curve.pc \in {"start", "return"}
           /\ curve.img = <<1, 1>> /\ ~curve.touched

\* curved_text_to_image("", ..., None) has returned the 1x1 image.
C14_Witness ==
    /\ curve.pc = "return" /\ curve.args.text = <<>>
    /\ curve.args.components = None /\ curve.img = <<1, 1>>

-----------------------------------------------------------------------------
\* create_role_token, in helpers/token_creation.py and in commands/create.py
\* (the two compose the token in the same order).  The token is the
\* sequence of the images composited onto the role background.

MaxReminders == 8     \* most reminders of a role; the package has 7 leaves

\* TokenComponents.leaves
Leaves ==
    <<"Leaf1.png", "Leaf2.png", "Leaf3.png", "Leaf4.png", "Leaf5.png",
      "Leaf6.png", "Leaf7.png">>

\* Every leaf of the package, whatever the number of reminders.
LeafSlice_all(leaves, n) == leaves

\* components.leaves[:len(role.reminders)]
LeafSlice(leaves, n) == SubSeq(leaves, 1, IF n < Len(leaves) THEN n ELSE Len(leaves))

Roles ==
    [reminders : {[i \in 1..n |-> i] : n \in 0..MaxReminders},
     first_night : BOOLEAN, other_nights : BOOLEAN, affects_setup : BOOLEAN]

\* The sizes of the role background of a package, square or not.
BackgroundSizes == {[width |-> 2, height |-> 2], [width |-> 4, height |-> 2]}

\* The --role-diameter values.
RoleDiameters == {1, 3}

\* A resize that keeps the proportions of the image.
Resize_proportional(size, diameter) ==
    [width |-> diameter, height |-> (size.height * diameter) \div size.width]

\* Image.resize(width=diameter, height=diameter): both sides are set.
Resize(size, diameter) == [width |-> diameter, height |-> diameter]

\* create_role_token has been called: token = components.get_role_bg()
ComposeCalled(role, variant, role_bg, diameter) ==
    [pc |-> "leaves", role |-> role, variant |-> variant,
     todo |-> LeafSlice(Leaves, Len(role.reminders)),
     layers |-> <<"TokenBG.png">>, resized |-> FALSE,
     diameter |-> diameter, size |-> role_bg]

\* One turn of the for loop: token.composite(leaf, left=0, top=0)
ComposeLeaf ==
    /\ compose.pc = "leaves" /\ compose.todo # <<>>
    /\ compose' = [compose EXCEPT !.layers = Append(compose.layers, Head(compose.todo)),
                                  !.todo = Tail(compose.todo)]
    /\ UNCHANGED <<printableVars, fit, curve, create, group, wiki>>

\* The loop is over: the icon is composited.
ComposeIcon ==
    /\ compose.pc = "leaves" /\ compose.todo = <<>>
    /\ compose' = [compose EXCEPT !.pc = "modifiers",
                                  !.layers = Append(compose.layers, "icon")]
    /\ UNCHANGED <<printableVars, fit, curve, create, group, wiki>>

\* The three modifier tests, in the order of the code.
ComposeModifiers ==
    /\ compose.pc = "modifiers"
    /\ LET l1 == IF compose.role.first_night
                 THEN Append(compose.layers, "LeafLeft.png") ELSE compose.layers
           l2 == IF compose.role.other_nights
                 THEN Append(l1, "LeafRight.png") ELSE l1
           l3 == IF compose.role.affects_setup
                 THEN Append(l2, "SetupFlower.png") ELSE l2
       IN  compose' = [compose EXCEPT !.pc = "text", !.layers = l3]
    /\ UNCHANGED <<printableVars, fit, curve, create, group, wiki>>

\* The ability text and the curved role name are composited.
ComposeText ==
    /\ compose.pc = "text"
    /\ compose' = [compose EXCEPT !.pc = "resize",
                                  !.layers = compose.layers \o <<"ability", "name">>]
    /\ UNCHANGED <<printableVars, fit, curve, create, group, wiki>>

\* token.resize(width=diameter, height=diameter), and the token is
\* returned (helpers) or saved (command).
ComposeResize ==
    /\ compose.pc = "resize"
    /\ compose' = [compose EXCEPT !.pc = "return", !.resized = TRUE,
                                  !.size = Resize(compose.size, compose.diameter)]
    /\ UNCHANGED <<printableVars, fit, curve, create, group, wiki>>

InitCompose ==
    /\ compose \in {ComposeCalled(r, v, b, d) :
                       r \in Roles, v \in {"helpers", "command"},
                       b \in BackgroundSizes, d \in RoleDiameters}
    /\ PrintableUnused
    /\ fit = Idle /\ curve = Idle /\ create = Idle /\ group = Idle
    /\ wiki = Idle

NextCompose ==
    ComposeLeaf \/ ComposeIcon \/ ComposeModifiers \/ ComposeText \/ ComposeResize

SpecCompose == InitCompose /\ [][NextCompose]_vars

\* How many times image x was composited onto the token.
Times(x) == Cardinality({i \in 1..Len(compose.layers) : compose.layers[i] = x})

\* The overlay assets of the package.
Overlays ==
    {Leaves[i] : i \in 1..Len(Leaves)}
        \cup {"LeafLeft.png", "LeafRight.png", "SetupFlower.png"}

\* C16: the finished role token carries the first min(len(reminders), 7)
\* numbered leaves once each, the left leaf iff first_night, the right
\* leaf iff other_nights, the setup flower iff affects_setup, and besides
\* the background, the icon and the two texts nothing else; for two
\* reminders and first_night only that is Leaf1, Leaf2 and the left leaf.
C16_LeavesAndModifiers ==
    compose.pc = "return" =>
        LET n == Len(compose.role.reminders)
            k == IF n < Len(Leaves) THEN n ELSE Len(Leaves)
        IN  /\ \A i \in 1..Len(Leaves) : Times(Leaves[i]) = IF i <= k THEN 1 ELSE 0
            /\ Times("LeafLeft.png") = IF compose.role.first_night THEN 1 ELSE 0
            /\ Times("LeafRight.png") = IF compose.role.other_nights THEN 1 ELSE 0
            /\ Times("SetupFlower.png") = IF compose.role.affects_setup THEN 1 ELSE 0
            /\ \A i \in 1..Len(compose.layers) :
                   compose.layers[i] \in
                       Overlays \cup {"TokenBG.png", "icon", "ability", "name"}
            /\ (/\ n = 2 /\ compose.role.first_night
                /\ ~compose.role.other_nights /\ ~compose.role.affects_setup)
               => compose.layers = <<"TokenBG.png", "Leaf1.png", "Leaf2.png",
                                     "icon", "LeafLeft.png", "ability", "name">>

\* The role of the example has been composed: two leaves and the left leaf.
C16_Witness ==
    /\ compose.pc = "return"
    /\ Len(compose.role.reminders) = 2 /\ compose.role.first_night
    /\ ~compose.role.other_nights /\ ~compose.role.affects_setup
    /\ Times("Leaf1.png") = 1 /\ Times("Leaf2.png") = 1 /\ Times("Leaf3.png") = 0
    /\ Times("LeafLeft.png") = 1 /\ Times("LeafRight.png") = 0

-----------------------------------------------------------------------------
\* The create command (commands/create.py) with the component package
\* (helpers/token_components.py).  A file name is a sequence of
\* characters; "-Reminder-" and ".png" stand for their characters.  All
\* roles are of one home script and type, so that their files share a
\* directory.  The output directory is a set of <<name, writer>>, the
\* writer being <<0, 0>> for a file that was there before the run, <<i, 0>> for
\* the token of role i and <<i, j>> for its reminder j.

MaxRoles == 2         \* most roles found in the search directory
MaxSame == 2          \* most repetitions of one reminder text in a role

\* TokenComponents.required_files
RequiredFiles ==
    <<"TokenBG.png", "ReminderBG.png", "Leaf1.png", "Leaf2.png", "Leaf3.png",
      "Leaf4.png", "Leaf5.png", "Leaf6.png", "Leaf7.png", "LeafLeft.png",
      "LeafRight.png", "SetupFlower.png", "AbilityText.*", "ReminderText.*",
      "RoleName.*">>

\* The files _load_components opens as images, in its order.
ImageFiles == SubSeq(RequiredFiles, 1, 12)

\* The component package is never verified.
FirstMissing_unverified(files) == 0

\* The package lacks a required file.
Incomplete(files) == \E i \in 1..Len(RequiredFiles) : RequiredFiles[i] \notin files

\* _verify_package, and _unzip_package before it for a zip: the index of
\* the first required file the package lacks, 0 when it lacks none.
FirstMissing(files) ==
    LET missing == {i \in 1..Len(RequiredFiles) : RequiredFiles[i] \notin files}
    IN  IF missing = {} THEN 0 ELSE CHOOSE i \in missing : \A j \in missing : i <= j

\* The images _load_components has opened when it stops: all of them, or
\* those before the first one that cannot be opened.
ImagesLoaded(files) ==
    LET bad == {i \in 1..Len(ImageFiles) : ImageFiles[i] \notin files}
        stop == IF bad = {} THEN Len(ImageFiles) + 1
                ELSE CHOOSE i \in bad : \A j \in bad : i <= j
    IN  {ImageFiles[i] : i \in 1..(stop - 1)}

\* A complete package, or one that lacks one required file; a directory
\* or a zip file.
Packages ==
    LET all == {RequiredFiles[i] : i \in 1..Len(RequiredFiles)}
    IN  [kind : {"directory", "zip"},
         files : {all} \cup {all \ {f} : f \in all}]

\* valid_chars of format_filename
ValidChars ==
    {"-", "_", ".", "(", ")", " ",
     "a", "b", "c", "d", "e", "f", "g", "h", "i", "j", "k", "l", "m",
     "n", "o", "p", "q", "r", "s", "t", "u", "v", "w", "x", "y", "z",
     "A", "B", "C", "D", "E", "F", "G", "H", "I", "J", "K", "L", "M",
     "N", "O", "P", "Q", "R", "S", "T", "U", "V", "W", "X", "Y", "Z",
     "0", "1", "2", "3", "4", "5", "6", "7", "8", "9", "-Reminder-"}

\* The chain of replace calls of format_filename, for one character.
Replaced(c) ==
    CASE c = " " -> "_"
      [] c = "/" -> "-"
      [] c = "\\" -> "-"
      [] c = ":" -> "-"
      [] c = "?" -> "Q"
      [] OTHER -> c

\* format_filename
RECURSIVE format_filename(_)
format_filename(s) ==
    IF s = <<>> THEN <<>>
    ELSE LET c == Replaced(Head(s))
         IN  (IF c \in ValidChars THEN <<c>> ELSE <<>>) \o format_filename(Tail(s))

\* str(duplicate_counter)
Decimal(n) ==
    LET digit == <<"0", "1", "2", "3", "4", "5", "6", "7", "8", "9">>
    IN  IF n < 10 THEN <<digit[n + 1]>>
        ELSE <<digit[(n \div 10) + 1], digit[(n % 10) + 1]>>

\* f"{format_filename(role['name'])}.png"
TokenName(role) == format_filename(role.name) \o <<".png">>

\* format_filename(f"{role['name']}-Reminder-{reminder_text}")
ReminderName(role, reminder_text) ==
    format_filename(role.name \o <<"-Reminder-">> \o reminder_text)

\* The candidate paths of a reminder: the base name for counter 1, then
\* f"{reminder_name}-{duplicate_counter}.png".
ReminderPath(reminder_name, duplicate_counter) ==
    IF duplicate_counter = 1 THEN reminder_name \o <<".png">>
    ELSE reminder_name \o <<"-">> \o Decimal(duplicate_counter) \o <<".png">>

\* path.exists()
Exists(fs, path) == \E f \in fs : f[1] = path

\* image.save(filename=path) by writer w: the file is created or replaced.
SaveFile(fs, path, w) == {f \in fs : f[1] # path} \cup {<<path, w>>}

\* Every reminder is saved under its base name.
FreeCounter_base(fs, reminder_name, duplicate_counter) == 1

\* while reminder_output_path.exists(): duplicate_counter += 1
RECURSIVE FreeCounter(_, _, _)
FreeCounter(fs, reminder_name, duplicate_counter) ==
    IF Exists(fs, ReminderPath(reminder_name, duplicate_counter))
    THEN FreeCounter(fs, reminder_name, duplicate_counter + 1)
    ELSE duplicate_counter

\* No role is skipped.
SkipRole_never(fs, role) == FALSE

\* if token_output_path.exists(): continue
SkipRole(fs, role) == Exists(fs, TokenName(role))

RoleNames == { <<"A">>, <<"A", "'">> }

ReminderLists ==
    {[j \in 1..k |-> <<"X">>] : k \in 0..MaxSame}
        \cup { << <<"X">>, <<"X", "-", "2">> >>, << <<"X", "-", "2">>, <<"X">> >> }

CreateRoles == [name : RoleNames, reminders : ReminderLists]

RoleLists == UNION {[1..n -> CreateRoles] : n \in 0..MaxRoles}

\* What the output directory may hold before the run.
OldFiles ==
    SUBSET { <<<<"A", ".png">>, <<0, 0>>>>,
             <<<<"A", "-Reminder-", "X", ".png">>, <<0, 0>>>>,
             <<<<"A", "-Reminder-", "X", "-", "2", ".png">>, <<0, 0>>>> }

\* run() has found the roles and made the output directory.
CreateCalled(package, roles, fs) ==
    [pc |-> "load", package |-> package, roles |-> roles, fs0 |-> fs,
     fs |-> fs, components |-> None, loaded |-> {}, error |-> "",
     i |-> 1, j |-> 1, log |-> <<>>, again |-> FALSE]

\* How TokenComponents(package) ends: "" when the package is loaded.  A
\* missing file is reported by the verification; without it the first
\* image that cannot be opened raises BlobError and a missing font ends
\* next(glob) with StopIteration.
LoadError(files) ==
    IF FirstMissing(files) # 0 THEN "FileNotFoundError"
    ELSE IF \E i \in 1..Len(ImageFiles) : ImageFiles[i] \notin files THEN "BlobError"
    ELSE IF \E i \in 1..Len(RequiredFiles) : RequiredFiles[i] \notin files
         THEN "StopIteration"
    ELSE ""

\* load_components fails: components is None and run returns (or the
\* exception ends the run).
CreateLoadFailed ==
    /\ create.pc = "load"
    /\ LoadError(create.package.files) # ""
    /\ create' = [create EXCEPT
           !.pc = "done", !.error = LoadError(create.package.files),
           !.loaded = IF FirstMissing(create.package.files) # 0 THEN {}
                      ELSE ImagesLoaded(create.package.files)]
    /\ UNCHANGED <<printableVars, fit, curve, compose, group, wiki>>

\* load_components returns the loaded package.
CreateLoaded ==
    /\ create.pc = "load"
    /\ LoadError(create.package.files) = ""
    /\ create' = [create EXCEPT !.pc = "roles", !.components = Package,
                                !.loaded = ImagesLoaded(create.package.files)]
    /\ UNCHANGED <<printableVars, fit, curve, compose, group, wiki>>

\* The token of the next role exists: continue.
CreateSkip ==
    /\ create.pc = "roles" /\ create.i <= Len(create.roles)
    /\ SkipRole(create.fs, create.roles[create.i])
    /\ create' = [create EXCEPT !.i = create.i + 1]
    /\ UNCHANGED <<printableVars, fit, curve, compose, group, wiki>>

\* The role token is saved as soon as the role is begun, before its
\* reminders.
CreateBegin_token_first ==
    /\ create.pc = "roles" /\ create.i <= Len(create.roles)
    /\ ~SkipRole(create.fs, create.roles[create.i])
    /\ LET path == TokenName(create.roles[create.i])
       IN  create' = [create EXCEPT
               !.pc = "reminders", !.j = 1,
               !.fs = SaveFile(create.fs, path, <<create.i, 0>>),
               !.log = Append(create.log,
                          [role |-> create.i, reminder |-> 0, path |-> path,
                           reminder_name |-> <<>>, duplicate_counter |-> 1,
                           before |-> {f[1] : f \in create.fs}])]
    /\ UNCHANGED <<printableVars, fit, curve, compose, group, wiki>>

\* The token of the next role does not exist: its icon is read and its
\* reminders come first.
CreateBegin ==
    /\ create.pc = "roles" /\ create.i <= Len(create.roles)
    /\ ~SkipRole(create.fs, create.roles[create.i])
    /\ create' = [create EXCEPT !.pc = "reminders", !.j = 1]
    /\ UNCHANGED <<printableVars, fit, curve, compose, group, wiki>>

\* One reminder of the role: the first free path is found and
\* create_reminder_token saves the reminder there.
CreateReminder ==
    /\ create.pc = "reminders"
    /\ create.j <= Len(create.roles[create.i].reminders)
    /\ LET role == create.roles[create.i]
           reminder_name == ReminderName(role, role.reminders[create.j])
           duplicate_counter == FreeCounter(create.fs, reminder_name, 1)
           path == ReminderPath(reminder_name, duplicate_counter)
       IN  create' = [create EXCEPT
               !.fs = SaveFile(create.fs, path, <<create.i, create.j>>),
               !.j = create.j + 1,
               !.log = Append(create.log,
                          [role |-> create.i, reminder |-> create.j,
                           path |-> path, reminder_name |-> reminder_name,
                           duplicate_counter |-> duplicate_counter,
                           before |-> {f[1] : f \in create.fs}])]
    /\ UNCHANGED <<printableVars, fit, curve, compose, group, wiki>>

\* The reminders are done: create_role_token saves the role token.
CreateToken ==
    /\ create.pc = "reminders"
    /\ create.j > Len(create.roles[create.i].reminders)
    /\ LET path == TokenName(create.roles[create.i])
       IN  create' = [create EXCEPT
               !.pc = "roles",
               !.fs = SaveFile(create.fs, path, <<create.i, 0>>),
               !.i = create.i + 1,
               !.log = Append(create.log,
                          [role |-> create.i, reminder |-> 0, path |-> path,
                           reminder_name |-> <<>>, duplicate_counter |-> 1,
                           before |-> {f[1] : f \in create.fs}])]
    /\ UNCHANGED <<printableVars, fit, curve, compose, group, wiki>>

\* Every role was handled: components.close().
CreateDone ==
    /\ create.pc = "roles" /\ create.i > Len(create.roles)
    /\ create' = [create EXCEPT !.pc = "done"]
    /\ UNCHANGED <<printableVars, fit, curve, compose, group, wiki>>

\* After a run that went through its roles the command is run again with
\* the same arguments, on the output directory as that run left it (and
\* again after that run, any number of times).
CreateAgain ==
    /\ create.pc = "done" /\ create.error = ""
    /\ create' = [CreateCalled(create.package, create.roles, create.fs)
                      EXCEPT !.again = TRUE]
    /\ UNCHANGED <<printableVars, fit, curve, compose, group, wiki>>

InitCreate ==
    /\ create \in {CreateCalled(p, r, fs) :
                       p \in Packages, r \in RoleLists, fs \in OldFiles}
    /\ PrintableUnused
    /\ fit = Idle /\ curve = Idle /\ compose = Idle /\ group = Idle
    /\ wiki = Idle

NextCreate ==
    \/ CreateLoadFailed \/ CreateLoaded \/ CreateSkip \/ CreateBegin
    \/ CreateReminder \/ CreateToken \/ CreateDone \/ CreateAgain

SpecCreate == InitCreate /\ [][NextCreate]_vars

\* The saves of the run so far, as indices of the log.
Saves_of(i) == {k \in 1..Len(create.log) : create.log[k].role = i}

\* The roles the loop has finished with.
Handled ==
    IF create.pc \in {"idle", "load"} THEN {}
    ELSE {i \in 1..Len(create.roles) : i < create.i}

\* The names present when the loop came to role i: those of before the
\* run and those saved for earlier roles.
NamesBefore(i) ==
    {f[1] : f \in create.fs0}
        \cup {create.log[k].path : k \in {k \in 1..Len(create.log) : create.log[k].role < i}}

\* C17: when the package lacks a required file, loading ends with
\* FileNotFoundError with no component image loaded, and the run ends
\* there: nothing is saved and the output directory is as it was.
C17_MissingFileNothingCreated ==
    (create.pc # "idle" /\ Incomplete(create.package.files)) =>
        /\ create.pc \in {"load", "done"}
        /\ create.pc = "done" => create.error = "FileNotFoundError"
        /\ create.loaded = {} /\ create.components = None
        /\ create.log = <<>> /\ create.fs = create.fs0

\* A run with roles to create ended on a package without its Leaf7.png.
C17_Witness ==
    /\ create.pc = "done" /\ create.error = "FileNotFoundError"
    /\ "Leaf7.png" \notin create.package.files
    /\ Len(create.roles) > 0 /\ create.fs0 = {}
    /\ create.fs = {} /\ create.loaded = {}

\* C18: a role whose token file existed when the loop came to it has no
\* save at all (no reminder, no token) and the file is still the one that
\* was there; every other role got its token saved.
C18_ExistingTokenSkipped ==
    \A i \in Handled :
        LET path == TokenName(create.roles[i])
        IN  IF path \in NamesBefore(i)
            THEN /\ Saves_of(i) = {}
                 /\ \A k \in 1..Len(create.log) :
                        create.log[k].path = path => path \notin create.log[k].before
                 /\ Exists(create.fs, path)
            ELSE /\ \E k \in Saves_of(i) :
                        create.log[k].reminder = 0 /\ create.log[k].path = path
                 /\ \A j \in 1..Len(create.roles[i].reminders) :
                        \E k \in Saves_of(i) : create.log[k].reminder = j

\* The first role's token was there before the run and is untouched,
\* though the role has reminders; the second role was created.
C18_Witness ==
    /\ create.pc = "done" /\ Len(create.roles) = 2
    /\ create.roles[1].name = <<"A">> /\ create.roles[1].reminders # <<>>
    /\ <<<<"A", ".png">>, <<0, 0>>>> \in create.fs
    /\ Saves_of(1) = {}

\* C19: every reminder is saved to a path that did not exist; it is the
\* base name when that was free, otherwise the name with the least
\* counter from 2 that was free; a role that was created has as many
\* reminder files as reminders, identical texts included.
C19_ReminderPathFree ==
    create.pc # "idle" =>
    /\ \A k \in 1..Len(create.log) :
           LET e == create.log[k]
           IN  e.reminder # 0 =>
                   /\ e.path \notin e.before
                   /\ e.path = ReminderPath(e.reminder_name, e.duplicate_counter)
                   /\ \A c \in 1..(e.duplicate_counter - 1) :
                          ReminderPath(e.reminder_name, c) \in e.before
                   /\ e.reminder_name =
                          ReminderName(create.roles[e.role],
                                       create.roles[e.role].reminders[e.reminder])
    /\ \A f \in create.fs0 : f \in create.fs
    /\ \A i \in Handled :
           Saves_of(i) # {} =>
               Cardinality({f \in create.fs : f[2][1] = i /\ f[2][2] # 0})
                   = Len(create.roles[i].reminders)

\* Two identical reminders of one role, the second base name and "-2"
\* taken: the files end in ".png" and "-3.png".
C19_Witness ==
    /\ create.pc = "done"
    /\ \E k \in 1..Len(create.log) :
           /\ create.log[k].duplicate_counter = 3
           /\ create.log[k].reminder = 2
           /\ create.roles[create.log[k].role].reminders = << <<"X">>, <<"X">> >>

-----------------------------------------------------------------------------
\* The group command's process_tokens (commands/group.py).  The two
\* sheets are taken as the sequence of their add_token calls, each with
\* the script entry it was made for.  Names are sequences of characters,
\* "-Reminder-" standing for its characters; no name holds a character
\* that is special in a regular expression, so that the reminder pattern
\* f"{role_name}-reminder.*" matches the stems that begin with the role
\* name and "-reminder".

MaxScript == 3        \* most entries of the script
MaxCount == 3         \* largest count in a duplicates file

\* str.lower, for one character
Lower(c) ==
    CASE c = "L" -> "l"
      [] c = "E" -> "e"
      [] c = "-Reminder-" -> "-reminder-"
      [] OTHER -> c

\* t.stem.lower().replace("'", "")
RECURSIVE StemKey(_)
StemKey(s) ==
    IF s = <<>> THEN <<>>
    ELSE (IF Head(s) = "'" THEN <<>> ELSE <<Lower(Head(s))>>) \o StemKey(Tail(s))

\* str.strip
RECURSIVE Strip(_)
Strip(s) ==
    IF s = <<>> THEN s
    ELSE IF Head(s) = " " THEN Strip(Tail(s))
    ELSE IF s[Len(s)] = " " THEN Strip(SubSeq(s, 1, Len(s) - 1))
    ELSE s

\* role.lower().strip()
RoleName(role) == Strip([i \in 1..Len(role) |-> Lower(role[i])])

\* The first role image whose stem is the role name, <<>> for None.
RoleFile(role_images, role_name) ==
    LET found == {k \in 1..Len(role_images) : StemKey(role_images[k]) = role_name}
    IN  IF found = {} THEN <<>>
        ELSE role_images[CHOOSE k \in found : \A l \in found : k <= l]

\* reminder_regex.match(stem): the stem begins with the role name and
\* "-reminder".
ReminderMatches(stem, role_name) ==
    /\ Len(stem) > Len(role_name)
    /\ SubSeq(StemKey(stem), 1, Len(role_name) + 1) = role_name \o <<"-reminder-">>

\* The reminder images of the role, in the order of reminder_images.
RECURSIVE ReminderFiles(_, _)
ReminderFiles(reminder_images, role_name) ==
    IF reminder_images = <<>> THEN <<>>
    ELSE (IF ReminderMatches(Head(reminder_images), role_name)
          THEN <<Head(reminder_images)>> ELSE <<>>)
         \o ReminderFiles(Tail(reminder_images), role_name)

\* The built-in list is asked before the user's file.
TokenCount_known_first(duplicates, duplicates_overrides, role_name) ==
    IF role_name \in DOMAIN duplicates THEN duplicates[role_name]
    ELSE IF role_name \in DOMAIN duplicates_overrides
         THEN duplicates_overrides[role_name]
    ELSE 1

\* token_count
TokenCount(duplicates, duplicates_overrides, role_name) ==
    IF role_name \in DOMAIN duplicates_overrides THEN duplicates_overrides[role_name]
    ELSE IF role_name \in DOMAIN duplicates THEN duplicates[role_name]
    ELSE 1

\* A metadata entry of the script, a dict; a role entry is a string.
Meta == [dict |-> TRUE, str |-> <<>>]

RoleEntry(s) == [dict |-> FALSE, str |-> s]

\* The role entries a script may hold: with and without token image,
\* capitalised, with blanks around.
ScriptRoles ==
    {RoleEntry(s) :
        s \in { <<"1">>, <<"1", "2">>, <<"L", "e">>, <<" ", "l", "e", " ">>, <<"x">> }}

Scripts == UNION {[1..n -> ScriptRoles \cup {Meta}] : n \in 0..MaxScript}

\* find_images on the token directory
RoleImages == << <<"1">>, <<"1", "2">>, <<"L", "e">> >>

ReminderImages ==
    << <<"1", "-Reminder-", "R">>, <<"1", "2", "-Reminder-", "R">>,
       <<"L", "e", "-Reminder-", "R">>, <<"L", "e", "-Reminder-", "S">>,
       <<"x", "-Reminder-", "R">> >>

\* known_duplicates.json: empty, or a count for one role.
KnownDuplicates ==
    {<<>>} \cup {[n \in {<<"l", "e">>} |-> c] : c \in {MaxCount}}

\* The user's duplicates file: none, or a count under one key.
UserDuplicates ==
    {<<>>} \cup {[n \in {k} |-> c] :
                    k \in { <<"1">>, <<"l", "e">>, <<"L", "e">> }, c \in 1..MaxCount}

\* process_tokens has been called.
GroupCalled(script, duplicates, duplicates_overrides) ==
    [pc |-> "script", script |-> script, duplicates |-> duplicates,
     duplicates_overrides |-> duplicates_overrides,
     role_images |-> RoleImages, reminder_images |-> ReminderImages,
     i |-> 1, left |-> 0, role_page |-> <<>>, reminder_page |-> <<>>,
     warnings |-> <<>>]

\* if isinstance(role, dict): continue
GroupMeta ==
    /\ group.pc = "script" /\ group.i <= Len(group.script)
    /\ group.script[group.i].dict
    /\ group' = [group EXCEPT !.i = group.i + 1]
    /\ UNCHANGED <<printableVars, fit, curve, compose, create, wiki>>

\* A role without token image still gets its reminders added.
GroupNoToken_reminders ==
    /\ group.pc = "script" /\ group.i <= Len(group.script)
    /\ ~group.script[group.i].dict
    /\ RoleFile(group.role_images, RoleName(group.script[group.i].str)) = <<>>
    /\ LET files == ReminderFiles(group.reminder_images,
                                  RoleName(group.script[group.i].str))
       IN  group' = [group EXCEPT
               !.i = group.i + 1,
               !.warnings = Append(group.warnings, group.i),
               !.reminder_page = group.reminder_page
                   \o [k \in 1..Len(files) |-> [entry |-> group.i, file |-> files[k]]]]
    /\ UNCHANGED <<printableVars, fit, curve, compose, create, wiki>>

\* if not role_file: warning, continue
GroupNoToken ==
    /\ group.pc = "script" /\ group.i <= Len(group.script)
    /\ ~group.script[group.i].dict
    /\ RoleFile(group.role_images, RoleName(group.script[group.i].str)) = <<>>
    /\ group' = [group EXCEPT !.i = group.i + 1,
                              !.warnings = Append(group.warnings, group.i)]
    /\ UNCHANGED <<printableVars, fit, curve, compose, create, wiki>>

\* The role has a token: token_count is looked up.
GroupCount ==
    /\ group.pc = "script" /\ group.i <= Len(group.script)
    /\ ~group.script[group.i].dict
    /\ RoleFile(group.role_images, RoleName(group.script[group.i].str)) # <<>>
    /\ group' = [group EXCEPT
           !.pc = "roles",
           !.left = TokenCount(group.duplicates, group.duplicates_overrides,
                               RoleName(group.script[group.i].str))]
    /\ UNCHANGED <<printableVars, fit, curve, compose, create, wiki>>

\* One turn of for _ in range(token_count): role_page.add_token(role_file)
GroupAddRole ==
    /\ group.pc = "roles" /\ group.left > 0
    /\ group' = [group EXCEPT
           !.left = group.left - 1,
           !.role_page = Append(group.role_page,
               [entry |-> group.i,
                file |-> RoleFile(group.role_images,
                                  RoleName(group.script[group.i].str))])]
    /\ UNCHANGED <<printableVars, fit, curve, compose, create, wiki>>

\* for reminder in reminder_files: reminder_page.add_token(reminder)
GroupAddReminders ==
    /\ group.pc = "roles" /\ group.left <= 0
    /\ LET files == ReminderFiles(group.reminder_images,
                                  RoleName(group.script[group.i].str))
       IN  group' = [group EXCEPT
               !.pc = "script", !.i = group.i + 1,
               !.reminder_page = group.reminder_page
                   \o [k \in 1..Len(files) |-> [entry |-> group.i, file |-> files[k]]]]
    /\ UNCHANGED <<printableVars, fit, curve, compose, create, wiki>>

\* The script is used up; run writes the two sheets.
GroupDone ==
    /\ group.pc = "script" /\ group.i > Len(group.script)
    /\ group' = [group EXCEPT !.pc = "done"]
    /\ UNCHANGED <<printableVars, fit, curve, compose, create, wiki>>

InitGroup ==
    /\ group \in {GroupCalled(s, d, o) :
                      s \in Scripts, d \in KnownDuplicates, o \in UserDuplicates}
    /\ PrintableUnused
    /\ fit = Idle /\ curve = Idle /\ compose = Idle /\ create = Idle
    /\ wiki = Idle

NextGroup ==
    \/ GroupMeta \/ GroupNoToken \/ GroupCount \/ GroupAddRole
    \/ GroupAddReminders \/ GroupDone

SpecGroup == InitGroup /\ [][NextGroup]_vars

\* How often file f was added to the sheet for script entry i.
Added(page, i, f) ==
    Cardinality({k \in 1..Len(page) : page[k].entry = i /\ page[k].file = f})

\* C20: for every script entry the loop has finished with, whose role
\* (its name lower-cased and stripped, as the code compares it) has a
\* token image: that image was added to the role sheet as often as the
\* user's file says for the role name, else the built-in list, else once,
\* and each reminder image of the role was added to the reminder sheet
\* once; nothing else was added for the entry, and nothing at all for a
\* metadata entry or a role without token image.
C20_CountFromDuplicates ==
    group.pc # "idle" =>
    \A i \in 1..Len(group.script) :
        i < group.i =>
            LET role == group.script[i]
                name == RoleName(role.str)
                image == {k \in 1..Len(group.role_images) :
                              ~role.dict /\ StemKey(group.role_images[k]) = name}
                count == IF name \in DOMAIN group.duplicates_overrides
                         THEN group.duplicates_overrides[name]
                         ELSE IF name \in DOMAIN group.duplicates
                              THEN group.duplicates[name]
                         ELSE 1
            IN  /\ \A k \in 1..Len(group.role_images) :
                       Added(group.role_page, i, group.role_images[k]) =
                           IF k \in image THEN count ELSE 0
                /\ \A k \in 1..Len(group.reminder_images) :
                       Added(group.reminder_page, i, group.reminder_images[k]) =
                           IF /\ image # {}
                              /\ ReminderMatches(group.reminder_images[k], name)
                           THEN 1 ELSE 0

\* A role with a count in both lists was added as often as the user's
\* file says, and its two reminders once each.
C20_Witness ==
    /\ group.pc = "done"
    /\ group.script = <<RoleEntry(<<"L", "e">>)>>
    /\ <<"l", "e">> \in DOMAIN group.duplicates
    /\ <<"l", "e">> \in DOMAIN group.duplicates_overrides
    /\ group.duplicates_overrides[<<"l", "e">>] = 2
    /\ Len(group.role_page) = 2 /\ Len(group.reminder_page) = 2

\* The script entries a sheet's add_token calls were made for, in the
\* order of the calls.
EntriesOf(page) == [k \in 1..Len(page) |-> page[k].entry]

\* s never goes down.
Ascending(s) == \A k \in 1..(Len(s) - 1) : s[k] <= s[k + 1]

\* The script entry has a role token image.
HasImage(i) ==
    /\ ~group.script[i].dict
    /\ \E k \in 1..Len(group.role_images) :
           StemKey(group.role_images[k]) = RoleName(group.script[i].str)

\* C21: a finished script entry without role token image has one warning
\* and no add_token call on either sheet, a metadata entry has neither,
\* an entry with an image has no warning and its token added; the calls
\* and the warnings follow the order of the script, and at the end every
\* entry was handled.
C21_MissingTokenAddsNothing ==
    group.pc # "idle" =>
        /\ \A i \in 1..Len(group.script) :
               LET adds == {k \in 1..Len(group.role_page) : group.role_page[k].entry = i}
                   reminders == {k \in 1..Len(group.reminder_page) :
                                     group.reminder_page[k].entry = i}
                   warned == {k \in 1..Len(group.warnings) : group.warnings[k] = i}
               IN  /\ i < group.i =>
                       IF group.script[i].dict
                       THEN adds = {} /\ reminders = {} /\ warned = {}
                       ELSE IF HasImage(i)
                       THEN adds # {} /\ warned = {}
                       ELSE /\ adds = {} /\ reminders = {}
                            /\ Cardinality(warned) = 1
                   /\ i > group.i => (adds = {} /\ reminders = {} /\ warned = {})
        /\ Ascending(EntriesOf(group.role_page))
        /\ Ascending(EntriesOf(group.reminder_page))
        /\ Ascending(group.warnings)
        /\ group.pc = "done" => group.i = Len(group.script) + 1

\* A role without token image, though with a reminder image, came first:
\* one warning, nothing added for it, and the role after it was added.
C21_Witness ==
    /\ group.pc = "done"
    /\ group.script = <<RoleEntry(<<"x">>), Meta, RoleEntry(<<"1">>)>>
    /\ group.warnings = <<1>>
    /\ EntriesOf(group.role_page) = <<3>>
    /\ EntriesOf(group.reminder_page) = <<3>>

-----------------------------------------------------------------------------
\* WikiSoup (helpers/wiki_soup.py).  A role name is a sequence of
\* characters.  A soup is [id, how_to_run, bold]: the identity of the
\* BeautifulSoup object, whether the page has a "How_to_Run" section, and
\* the bold texts of the paragraphs after it.  The web answers each
\* request with a page or with an HTTP error, as it likes.

MaxCalls == 3         \* calls made on the WikiSoup object

\* role_name.replace(" ", "_")
Underscored(s) == [i \in 1..Len(s) |-> IF s[i] = " " THEN "_" ELSE s[i]]

\* role_name.replace("Of", "of")
RECURSIVE LowerOf(_)
LowerOf(s) ==
    IF s = <<>> THEN <<>>
    ELSE IF Len(s) >= 2 /\ s[1] = "O" /\ s[2] = "f"
         THEN <<"o", "f">> \o LowerOf(SubSeq(s, 3, Len(s)))
    ELSE <<Head(s)>> \o LowerOf(Tail(s))

\* The key _get_wiki_soup looks up in the cache.
LookupKey(role_name) == Underscored(role_name)

\* The page is stored under the key that was looked up.

\* The key _get_wiki_soup stores the page under, which is also the page
\* name of the url.
StoreKey(role_name) == LowerOf(Underscored(role_name))

\* disallowed_reminders
Disallowed ==
    {"YOU ARE", "THIS PLAYER IS", "THIS CHARACTER SELECTED YOU",
     "THESE CHARACTERS ARE NOT IN PLAY", "THIS IS THE DEMON",
     "THESE ARE YOUR MINIONS"}

\* text.isupper(), for the bold texts of the model's pages
IsUpper(text) == text \in Disallowed \cup {"POISONED"}

\* The reminders scraped from a page: its upper-case bold texts that are
\* not disallowed.
Scraped(soup) == {text \in soup.bold : IsUpper(text) /\ text \notin Disallowed}

\* The known list is asked before the user's overrides.
LocalReminders_known_first(reminder_overrides, reminders, role_name) ==
    IF role_name \in DOMAIN reminders
    THEN [found |-> TRUE, list |-> reminders[role_name]]
    ELSE IF role_name \in DOMAIN reminder_overrides
         THEN [found |-> TRUE, list |-> reminder_overrides[role_name]]
    ELSE [found |-> FALSE, list |-> <<>>]

\* The two tests get_reminders makes before it goes to the wiki.
LocalReminders(reminder_overrides, reminders, role_name) ==
    IF role_name \in DOMAIN reminder_overrides
    THEN [found |-> TRUE, list |-> reminder_overrides[role_name]]
    ELSE IF role_name \in DOMAIN reminders
         THEN [found |-> TRUE, list |-> reminders[role_name]]
    ELSE [found |-> FALSE, list |-> <<>>]

WikiNames ==
    { <<"F">>, <<"S", " ", "O", "f", " ", "I">>, <<"S", " ", "o", "f", " ", "I">> }

\* What urlopen(url).read() may give: a page, or an HTTPError.
Responses ==
    { [code |-> 200, how_to_run |-> TRUE, bold |-> {"YOU ARE", "POISONED", "Bold"}],
      [code |-> 200, how_to_run |-> FALSE, bold |-> {}],
      [code |-> 404, how_to_run |-> FALSE, bold |-> {}],
      [code |-> 500, how_to_run |-> FALSE, bold |-> {}] }

\* known_reminders.json, and the user's reminder file
ReminderLists_known == {<<>>, [n \in {<<"F">>} |-> <<"YOU ARE">>]}

ReminderLists_user == {<<>>, [n \in {<<"F">>} |-> <<"THIS PLAYER IS", "MINE">>]}

NoSoup == [id |-> 0, how_to_run |-> FALSE, bold |-> {}]

\* WikiSoup() has been constructed and the reminder files were read.
WikiConstructed(reminders, reminder_overrides) ==
    [pc |-> "ready", wiki_soups |-> <<>>, reminders |-> reminders,
     reminder_overrides |-> reminder_overrides,
     requests |-> <<>>, n_calls |-> 0, n_soups |-> 0,
     first |-> <<>>,
     last |-> [fn |-> "", role_name |-> <<>>, soup_call |-> FALSE,
               had_first |-> FALSE, first_id |-> 0, requested |-> FALSE,
               raised |-> "", soup |-> NoSoup, list |-> <<>>, scraped |-> {}]]

\* f with key k set to v
Store(f, k, v) == [x \in DOMAIN f \cup {k} |-> IF x = k THEN v ELSE f[x]]

\* _get_wiki_soup(role_name) on object w, the web answering response if
\* it is asked: the object afterwards, with the outcome in w.last.
get_wiki_soup(w, role_name, response) ==
    LET before == [fn |-> "_get_wiki_soup", role_name |-> role_name,
                   soup_call |-> TRUE,
                   had_first |-> role_name \in DOMAIN w.first,
                   first_id |-> IF role_name \in DOMAIN w.first
                                THEN w.first[role_name] ELSE 0,
                   requested |-> FALSE, raised |-> "", soup |-> NoSoup,
                   list |-> <<>>, scraped |-> {}]
        url == StoreKey(role_name)
    IN  IF LookupKey(role_name) \in DOMAIN w.wiki_soups
        THEN LET soup == w.wiki_soups[LookupKey(role_name)]
             IN  [w EXCEPT !.last = [before EXCEPT !.soup = soup],
                           !.first = IF role_name \in DOMAIN w.first THEN w.first
                                     ELSE Store(w.first, role_name, soup.id)]
        ELSE IF response.code # 200
        THEN [w EXCEPT
                 !.requests = Append(w.requests, [url |-> url, code |-> response.code]),
                 !.last = [before EXCEPT
                              !.requested = TRUE,
                              !.raised = IF response.code = 404 THEN "RuntimeError"
                                         ELSE "HTTPError"]]
        ELSE LET soup == [id |-> w.n_soups + 1, how_to_run |-> response.how_to_run,
                          bold |-> response.bold]
             IN  [w EXCEPT
                     !.requests = Append(w.requests, [url |-> url, code |-> 200]),
                     !.n_soups = w.n_soups + 1,
                     !.wiki_soups = Store(w.wiki_soups, StoreKey(role_name), soup),
                     !.first = IF role_name \in DOMAIN w.first THEN w.first
                               ELSE Store(w.first, role_name, soup.id),
                     !.last = [before EXCEPT !.requested = TRUE, !.soup = soup]]

\* get_reminders(role_name) on object w.
get_reminders(w, role_name, response) ==
    LET local == LocalReminders(w.reminder_overrides, w.reminders, role_name)
        w2 == get_wiki_soup(w, role_name, response)
    IN  IF local.found
        THEN [w EXCEPT !.last = [fn |-> "get_reminders", role_name |-> role_name,
                                 soup_call |-> FALSE, had_first |-> FALSE,
                                 first_id |-> 0, requested |-> FALSE,
                                 raised |-> "", soup |-> NoSoup,
                                 list |-> local.list, scraped |-> {}]]
        ELSE IF w2.last.raised # ""
        THEN [w2 EXCEPT !.last.fn = "get_reminders"]
        ELSE IF ~w2.last.soup.how_to_run
        THEN [w2 EXCEPT !.last.fn = "get_reminders", !.last.raised = "RuntimeError"]
        ELSE [w2 EXCEPT !.last.fn = "get_reminders",
                        !.last.scraped = Scraped(w2.last.soup)]

\* A caller asks for a role's page.
GetWikiSoup ==
    /\ wiki.pc = "ready" /\ wiki.n_calls < MaxCalls
    /\ \E role_name \in WikiNames, response \in Responses :
           wiki' = [get_wiki_soup(wiki, role_name, response)
                        EXCEPT !.n_calls = wiki.n_calls + 1]
    /\ UNCHANGED <<printableVars, fit, curve, compose, create, group>>

\* A caller asks for a role's reminders.
GetReminders ==
    /\ wiki.pc = "ready" /\ wiki.n_calls < MaxCalls
    /\ \E role_name \in WikiNames, response \in Responses :
           wiki' = [get_reminders(wiki, role_name, response)
                        EXCEPT !.n_calls = wiki.n_calls + 1]
    /\ UNCHANGED <<printableVars, fit, curve, compose, create, group>>

InitWiki ==
    /\ wiki \in {WikiConstructed(k, o) :
                     k \in ReminderLists_known, o \in ReminderLists_user}
    /\ PrintableUnused
    /\ fit = Idle /\ curve = Idle /\ compose = Idle /\ create = Idle
    /\ group = Idle

NextWiki == GetWikiSoup \/ GetReminders

SpecWiki == InitWiki /\ [][NextWiki]_vars

\* C22: a _get_wiki_soup(name) that comes after a successful one for the
\* same name makes no web request and returns the object the first one
\* returned; no page is downloaded twice.
C22_PageFetchedOnce ==
    wiki.pc # "idle" =>
        /\ (wiki.last.soup_call /\ wiki.last.had_first) =>
               /\ ~wiki.last.requested
               /\ wiki.last.raised = ""
               /\ wiki.last.soup.id = wiki.last.first_id
        /\ \A i, j \in 1..Len(wiki.requests) :
               (/\ wiki.requests[i].url = wiki.requests[j].url
                /\ wiki.requests[i].code = 200 /\ wiki.requests[j].code = 200)
               => i = j

\* C23: get_reminders returns the user's list when the role is in
\* reminder_overrides, else the known list when the role is there, both
\* as they are and without a web request; otherwise it asks the wiki and
\* returns the page's upper-case bold texts without the disallowed ones.
C23_ReminderSources ==
    (wiki.pc # "idle" /\ wiki.last.fn = "get_reminders") =>
        LET name == wiki.last.role_name
        IN  IF name \in DOMAIN wiki.reminder_overrides
            THEN /\ wiki.last.list = wiki.reminder_overrides[name]
                 /\ ~wiki.last.requested /\ wiki.last.raised = ""
            ELSE IF name \in DOMAIN wiki.reminders
            THEN /\ wiki.last.list = wiki.reminders[name]
                 /\ ~wiki.last.requested /\ wiki.last.raised = ""
            ELSE /\ wiki.last.list = <<>>
                 /\ wiki.last.raised = "" =>
                        /\ wiki.last.soup.id # 0
                        /\ wiki.last.scraped =
                               {x \in wiki.last.soup.bold :
                                    IsUpper(x) /\ x \notin Disallowed}

\* The role is in both lists: the user's list came back, disallowed
\* phrase included, and the web was never asked.
C23_Witness ==
    /\ wiki.pc = "ready" /\ wiki.last.fn = "get_reminders"
    /\ wiki.last.role_name = <<"F">>
    /\ <<"F">> \in DOMAIN wiki.reminders
    /\ wiki.last.list = <<"THIS PLAYER IS", "MINE">>
    /\ wiki.requests = <<>>

----------------------------------------------------------------------------
\* The rows of a page.

\* The distance between two tokens of a row, in half pixels.
Pitch == 2 * (self.diameter + self.padding)

\* The start of an inset row, in half pixels: diameter * 0.5 + padding.
InsetStart == self.diameter + 2 * self.padding

\* The start of the row a cursor position lies in.
RowStart(x) == x % Pitch

\* The cursor one row further down.
RowBelow(y) == [s |-> y.s + (self.diameter \div 2), i |-> y.i + self.padding]

\* Token b was placed right after token a of the same row.
SameRow(a, b) == b.x = a.x + Pitch /\ b.y = a.y

\* Token b opens the row after the row of token a, at the other offset.
NextRow(a, b) ==
    /\ b.x \in {0, InsetStart} /\ b.x # RowStart(a.x)
    /\ b.y = RowBelow(a.y)

\* The rows of one page: its first token at the origin, every later token
\* in the row of the one before it or at the start of the row below.
RowsOf(page) ==
    /\ page # <<>> => page[1].x = 0 /\ page[1].y = YZero
    /\ \A i \in 1..(Len(page) - 1) :
          \/ SameRow(page[i], page[i + 1])
          \/ NextRow(page[i], page[i + 1])

\* C24: on every page the first row starts at x = 0 and each row wrap
\* switches the start between 0 and diameter/2 + padding; the inset flag
\* follows the row the cursor is in and is false whenever a page starts,
\* whatever the previous page ended with.  The rows are read off the open
\* page and the page committed last: every committed page was that page
\* when it was committed, and is not touched afterwards.
C24_RowsAlternate ==
    /\ self.page = <<>> => ~self.next_row_should_be_inset
    /\ self.diameter > 0 =>
          /\ self.next_row_should_be_inset <=>
                 RowStart(self.current_x) = InsetStart
          /\ RowsOf(self.page)
          /\ self.document # <<>> => RowsOf(self.document[Len(self.document)])

\* Two pages were committed after a single row each (the flag true at the
\* wrap that committed them) and the third page has its first token.
C24_Witness ==
    /\ TestPage(128, 128) /\ n_added = 5 /\ last_op = "add_token"
    /\ Len(self.document) = 2 /\ Len(self.page) = 1
    /\ self.page[1].x = 0 /\ ~self.next_row_should_be_inset

----------------------------------------------------------------------------
\* The order of the composites.

\* The modifiers of a role, in the order create_role_token tests them.
Modifiers(role) ==
    (IF role.first_night THEN <<"LeafLeft.png">> ELSE <<>>)
        \o (IF role.other_nights THEN <<"LeafRight.png">> ELSE <<>>)
        \o (IF role.affects_setup THEN <<"SetupFlower.png">> ELSE <<>>)

\* s is a prefix of t.
IsPrefix(s, t) == Len(s) <= Len(t) /\ SubSeq(t, 1, Len(s)) = s

\* Everything create_role_token composites for a role, in order.
AllLayers(role) ==
    <<"TokenBG.png">> \o LeafSlice(Leaves, Len(role.reminders)) \o <<"icon">>
        \o Modifiers(role) \o <<"ability", "name">>

\* C25: create_role_token composites onto the role background the numbered
\* leaves, the icon, the modifiers (left leaf, right leaf, setup flower),
\* the ability text and the role name, in this order; the resize comes
\* after the last composite and the returned token is diameter x diameter.
C25_CompositeOrderThenResize ==
    compose.pc # "idle" =>
        /\ IsPrefix(compose.layers, AllLayers(compose.role))
        /\ compose.resized => compose.layers = AllLayers(compose.role)
        /\ compose.pc = "return" =>
               /\ compose.resized
               /\ compose.size = [width |-> compose.diameter,
                                  height |-> compose.diameter]

\* A role with two reminders and all three modifiers on a background that
\* is not square, returned at diameter 3.
C25_Witness ==
    /\ compose.pc = "return" /\ Len(compose.role.reminders) = 2
    /\ compose.role.first_night /\ compose.role.other_nights
    /\ compose.role.affects_setup
    /\ compose.layers = <<"TokenBG.png", "Leaf1.png", "Leaf2.png", "icon",
                          "LeafLeft.png", "LeafRight.png", "SetupFlower.png",
                          "ability", "name">>
    /\ compose.diameter = 3 /\ compose.size = [width |-> 3, height |-> 3]

----------------------------------------------------------------------------
\* C26: after N add_token calls followed by write(), every one of the N
\* tokens lies on a committed page (the token counts of the committed
\* pages sum to N) and the open page holds no token.
C26_NoTokenLost ==
    AddsThenWrite =>
        /\ \A f \in 1..n_added :
               \E k \in 1..Len(self.document) : \E i \in 1..Len(self.document[k]) :
                   self.document[k][i].file = f
        /\ SeqSum([k \in 1..Len(self.document) |-> Len(self.document[k])]) = n_added
        /\ self.page = <<>>

----------------------------------------------------------------------------
\* Termination of fit_ability_text.

\* A call that has started runs on: the function is sequential code.
SpecTextFair == InitText /\ [][NextText]_vars /\ WF_vars(NextText)

\* The call goes on beyond the lines and font sizes followed here.
Beyond ==
    \/ fit.pc = "outer" /\ TooManyLines(fit.lines) /\ fit.shrinks >= MaxShrinks
    \/ /\ fit.pc = "inner" /\ Len(fit.text) > 0 /\ Len(fit.lines) >= MaxLines
       /\ ~NoProgress

\* C27: a call of fit_ability_text with a non-empty text, first_line_width
\* > 0 and step >= 0 returns: every greedy pass uses up the text and after
\* finitely many font shrinks the block has at most 4 lines.
C27_Terminates ==
    (fit.pc = "start" /\ fit.args.components = Package
                      /\ ~IsEmpty(fit.args.text))
        ~> (fit.pc = "return" \/ Beyond)

----------------------------------------------------------------------------
\* The lines of a pass, joined.
RECURSIVE Concat(_)
Concat(lines) == IF lines = <<>> THEN <<>> ELSE Head(lines) \o Concat(Tail(lines))

\* C28: in every greedy pass the lines fitted so far followed by the text
\* still to be consumed are the input text (each line is a prefix of what
\* remained), and the lines of the returned block joined in order are the
\* input text.
C28_LinesAreTheText ==
    /\ (fit.pc = "inner" \/ (fit.pc = "outer" /\ fit.shrinks >= 0)) =>
           Concat(fit.lines) \o fit.text = fit.args.text
    /\ (fit.pc = "return" /\ ~IsEmpty(fit.args.text)) =>
           Concat(fit.lines) = fit.args.text

\* A text of several words returned in more than one line after a shrink.
C28_Witness ==
    /\ fit.pc = "return" /\ fit.shrinks >= 1 /\ Len(fit.lines) >= 2
    /\ \A i \in 1..Len(fit.lines) : fit.lines[i] # <<>>
    /\ \E i \in 1..Len(fit.args.text) : fit.args.text[i] = " "

----------------------------------------------------------------------------
\* The chord of the angle formula: the width, less the effective diameter
\* when the width exceeds it.
Chord == IF curve.width > curve.token_diameter
         THEN curve.width - curve.token_diameter ELSE curve.width

\* The downsizing loop has exited for a text that is not empty.
LoopExited == curve.pc \in {"curve", "return"} /\ ~IsEmpty(curve.args.text)

\* C29 as stated: after the downsizing loop the width is at most 1.6 x the
\* effective diameter, the chord lies between 0 and the effective
\* diameter, and the angle does not exceed 180 + 2*asin(0.6) degrees
\* (253.74: for the whole number of degrees computed, at most 253).
C29_AngleBelowBound ==
    /\ LoopExited =>
           /\ 10 * curve.width <= 16 * curve.token_diameter
           /\ 0 <= Chord /\ Chord <= curve.token_diameter
    /\ (curve.pc = "return" /\ ~IsEmpty(curve.args.text)) =>
           curve.curve_degree <= 253

\* C29 amended: width and chord as above; the angle, rounded to whole
\* degrees, does not exceed 180 + 74 = 254, and 254 is computed when the
\* width is 1.6 x the effective diameter.
C29_AngleWithinRoundedBound ==
    /\ LoopExited =>
           /\ 10 * curve.width <= 16 * curve.token_diameter
           /\ 0 <= Chord /\ Chord <= curve.token_diameter
    /\ (curve.pc = "return" /\ ~IsEmpty(curve.args.text)) =>
           /\ curve.curve_degree <= 254
           /\ 10 * curve.width = 16 * curve.token_diameter =>
                  curve.curve_degree = 254

\* A text shrunk at least once leaves the loop wider than the effective
\* diameter and is curved by more than a half turn.
C29_Witness ==
    /\ curve.pc = "return" /\ curve.shrinks >= 1
    /\ curve.width > curve.token_diameter /\ curve.curve_degree > 250

----------------------------------------------------------------------------
\* Tokens and their reminders in the output directory.

\* Every save of a role token comes after a save of each reminder of
\* that role.
TokenAfterReminders ==
    \A k \in 1..Len(create.log) :
        create.log[k].reminder = 0 =>
            \A j \in 1..Len(create.roles[create.log[k].role].reminders) :
                \E r \in 1..(k - 1) :
                    /\ create.log[r].role = create.log[k].role
                    /\ create.log[r].reminder = j

\* Each reminder of the role has a file under its name, with some counter.
ReminderFilesExist(fs, role) ==
    \A j \in 1..Len(role.reminders) :
        \E c \in 1..(Cardinality(fs) + 1) :
            Exists(fs, ReminderPath(ReminderName(role, role.reminders[j]), c))

\* A run after a completed run saves nothing and leaves every file.
SecondRunIdle == create.again => (create.log = <<>> /\ create.fs = create.fs0)

\* C30 as stated: the token of a role is saved after all its reminders;
\* at every moment a role whose token file exists has a file for each of
\* its reminders; a run after a completed run saves nothing.
C30_TokenImpliesReminders ==
    create.pc # "idle" =>
        /\ TokenAfterReminders
        /\ \A i \in 1..Len(create.roles) :
               Exists(create.fs, TokenName(create.roles[i])) =>
                   ReminderFilesExist(create.fs, create.roles[i])
        /\ SecondRunIdle

\* C30 amended: the token of a role is saved after all its reminders, so
\* a role whose token this run saved has the file of each of its
\* reminders, as saved; a role the loop has passed has reminders saved
\* only if its token was saved after them (a role whose token file was
\* there gets no reminder file); a run after a completed run saves
\* nothing.
C30_SavedTokenImpliesReminders ==
    create.pc # "idle" =>
        /\ TokenAfterReminders
        /\ \A k \in 1..Len(create.log) :
               LET e == create.log[k]
               IN  /\ e.reminder = 0 =>
                          \A r \in 1..(k - 1) :
                              create.log[r].role = e.role =>
                                  <<create.log[r].path,
                                    <<e.role, create.log[r].reminder>>>> \in create.fs
                   /\ (e.role < create.i /\ e.reminder # 0) =>
                          \E s \in (k + 1)..Len(create.log) :
                              create.log[s].role = e.role /\ create.log[s].reminder = 0
        /\ SecondRunIdle

\* The second run has ended on the directory in which the first run saved
\* a role with two reminders and then its token.
C30_Witness ==
    /\ create.pc = "done" /\ create.again /\ create.error = ""
    /\ Len(create.roles) >= 1 /\ Len(create.roles[1].reminders) = 2
    /\ <<TokenName(create.roles[1]), <<1, 0>>>> \in create.fs
    /\ <<<<"A", "-Reminder-", "X", ".png">>, <<1, 1>>>> \in create.fs
    /\ create.log = <<>>

====
